---- MODULE Spec2Model ----
(***************************************************************************)
(* Startup of the tangram app (src/cli/app.rs): one attempt of app(), from *)
(* loading the config file to handing the resolved options to              *)
(* tangram_app::run, with the license verifier verify_license and the      *)
(* directory helpers cache_path, data_path and default_database_url.       *)
(*                                                                         *)
(* Option<T> is a sequence of length <= 1: None is <<>>, Some(x) is <<x>>. *)
(* Result<T> is a record [ok, v, trace]: Ok(v) or Err(v).                  *)
(* Byte strings are sequences of byte values (ASCII codes).                *)
(* Paths are sequences of path components.                                 *)
(***************************************************************************)
EXTENDS Integers, Sequences, FiniteSets, TLC

VARIABLES
    debug_assertions,   \* cfg(debug_assertions): the build mode, fixed per build
    pc,                 \* position of app() in its body
    outcome,            \* "none" while running; "run" | "err" | "panic" at the end
    error,              \* the error (or panic) message class when the attempt failed
    failed_at,          \* the step of app() the failure left from
    config,             \* Option<AppConfig>
    auth,               \* Option<AuthOptions>
    storage,            \* Option of the resolved StorageOptions (None before the step)
    database,           \* Option of the resolved DatabaseOptions (None before the step)
    host_env,           \* what std::env::var("HOST") gave: Option of a byte string
    port_env,           \* what std::env::var("PORT") gave: Option of a byte string
    host,               \* Option of the resolved IpAddr (None before the step)
    port,               \* Option of the resolved u16 (None before the step)
    license_file,       \* what std::fs::read(license path) saw: Option of a FileRead
    license_verified,   \* Option<bool>
    verify_trace,       \* the stages verify_license went through in this attempt
    verify_calls,       \* number of invocations of verify_license
    data_path_calls,    \* number of invocations of data_path()
    cache_path_calls,   \* number of invocations of cache_path()
    url,                \* Option<Url>
    options             \* Option of the Options handed to tangram_app::run

vars == <<debug_assertions, pc, outcome, error, failed_at, config, auth, storage,
          database, host_env, port_env, host, port, license_file,
          license_verified, verify_trace, verify_calls, data_path_calls,
          cache_path_calls, url, options>>

-----------------------------------------------------------------------------
(* Option and Result *)

None == <<>>
Some(x) == <<x>>
IsSome(o) == Len(o) = 1
IsNone(o) == Len(o) = 0
Unwrap(o) == o[1]
\* Option::or
OptionOr(a, b) == IF IsSome(a) THEN a ELSE b
\* Option::unwrap_or
UnwrapOr(o, d) == IF IsSome(o) THEN o[1] ELSE d

Ok(x, t) == [ok |-> TRUE, v |-> x, trace |-> t]
Err(e, t) == [ok |-> FALSE, v |-> e, trace |-> t]

-----------------------------------------------------------------------------
(* Bounds of the model *)

\* The largest number of ':'-separated segments of a license artifact.
MaxSegments == 3

-----------------------------------------------------------------------------
(* Bytes *)

Colon == 58
Pad == 61

RECURSIVE SumBytes(_)
SumBytes(s) == IF s = <<>> THEN 0 ELSE Head(s) + SumBytes(Tail(s))

\* slice::split(|byte| *byte == d): the segments between the delimiter bytes;
\* a slice with n delimiters has n + 1 segments, the empty slice has one.
RECURSIVE SplitOnFrom(_, _, _, _)
SplitOnFrom(bytes, d, i, cur) ==
    IF i > Len(bytes) THEN <<cur>>
    ELSE IF bytes[i] = d THEN <<cur>> \o SplitOnFrom(bytes, d, i + 1, <<>>)
    ELSE SplitOnFrom(bytes, d, i + 1, Append(cur, bytes[i]))

\* Line 244
Split(bytes) == SplitOnFrom(bytes, Colon, 1, <<>>)

\* Iterator::next on the split: the k-th segment, or None when exhausted.
SectionsNext(sections, k) ==
    IF k <= Len(sections) THEN Some(sections[k]) ELSE None

-----------------------------------------------------------------------------
(* base64::decode (standard alphabet; trailing padding accepted, not required) *)

IsB64Char(c) ==
    \/ c \in 65..90 \/ c \in 97..122 \/ c \in 48..57 \/ c = 43 \/ c = 47

\* The 6-bit value of a symbol of the standard alphabet.
B64Value(c) ==
    IF c \in 65..90 THEN c - 65
    ELSE IF c \in 97..122 THEN c - 71
    ELSE IF c \in 48..57 THEN c + 4
    ELSE IF c = 43 THEN 62
    ELSE 63

RECURSIVE TrailingPads(_)
TrailingPads(s) ==
    IF s # <<>> /\ s[Len(s)] = Pad
    THEN 1 + TrailingPads(SubSeq(s, 1, Len(s) - 1))
    ELSE 0

\* The bytes of the symbols, four symbols to three bytes; a last group of two
\* symbols gives one byte and of three symbols two bytes.
RECURSIVE DecodeSymbols(_)
DecodeSymbols(core) ==
    IF Len(core) = 0 THEN <<>>
    ELSE LET v1 == B64Value(core[1])
             v2 == B64Value(core[2])
             b1 == v1 * 4 + (v2 \div 16)
         IN IF Len(core) = 2 THEN <<b1>>
            ELSE LET v3 == B64Value(core[3])
                     b2 == (v2 % 16) * 16 + (v3 \div 4)
                 IN IF Len(core) = 3 THEN <<b1, b2>>
                    ELSE LET v4 == B64Value(core[4])
                             b3 == (v3 % 4) * 64 + v4
                         IN <<b1, b2, b3>> \o
                            DecodeSymbols(SubSeq(core, 5, Len(core)))

\* Option of the decoded bytes: None is the DecodeError.
Base64Decode(s) ==
    LET n == TrailingPads(s)
        core == SubSeq(s, 1, Len(s) - n)
        r == Len(core) % 4
        last == IF core = <<>> THEN 0 ELSE B64Value(core[Len(core)])
    IN IF \E i \in 1..Len(core) : ~IsB64Char(core[i]) THEN None
       ELSE IF n > 2 \/ r = 1 THEN None
       ELSE IF n > 0 /\ (Len(core) + n) % 4 # 0 THEN None
       ELSE IF (r = 2 /\ last % 16 # 0) \/ (r = 3 /\ last % 4 # 0) THEN None
       ELSE Some(DecodeSymbols(core))

-----------------------------------------------------------------------------
(* sha2::Sha256 and rsa::RSAPublicKey::verify, by a small stand-in: the     *)
(* digest is one byte computed from the whole of the data, and the one      *)
(* signature the embedded public key accepts for a digest is one byte        *)
(* computed from the digest.                                                 *)

Sha256(data) == (7 * Len(data) + SumBytes(data) + 1) % 256

SignatureOf(digest) == <<(3 * digest + 1) % 256>>

\* RSAPublicKey::verify(PKCS1v15, digest, signature): Ok iff the signature is
\* the key's signature of the digest.
RsaVerify(digest, signature) == signature = SignatureOf(digest)

-----------------------------------------------------------------------------
(* verify_license *)

\* What std::fs::read gives: the bytes of the file, or an io error.
FileOk(bytes) == [readable |-> TRUE, bytes |-> bytes]
FileUnreadable == [readable |-> FALSE, bytes |-> <<>>]

SignatureCheck_OkFalse(digest, signature, trace) ==
    IF RsaVerify(digest, signature)
    THEN Ok(TRUE, Append(trace, "Verified"))
    ELSE Ok(FALSE, trace)

SignatureCheck_AlwaysOk(digest, signature, trace) ==
    Ok(TRUE, Append(trace, "Verified"))

\* Lines 252-257: the `?` on the verification result, then Ok(true).
SignatureCheck(digest, signature, trace) ==
    IF RsaVerify(digest, signature)
    THEN Ok(TRUE, Append(trace, "Verified"))
    ELSE Err("rsa verification", trace)

\* Lines 244-248: the first two sections of the split, each decoded. Sections
\* after the second are never looked at.
ParseLicense(bytes) ==
    LET sections == Split(bytes)
        first == SectionsNext(sections, 1)
        second == SectionsNext(sections, 2)
    IN IF IsNone(first) THEN Err("invalid license", <<"ArtifactRead">>)
       ELSE IF IsNone(Base64Decode(Unwrap(first)))
            THEN Err("base64", <<"ArtifactRead">>)
       ELSE IF IsNone(second) THEN Err("invalid license", <<"ArtifactRead">>)
       ELSE IF IsNone(Base64Decode(Unwrap(second)))
            THEN Err("base64", <<"ArtifactRead">>)
       ELSE Ok([license_data |-> Unwrap(Base64Decode(Unwrap(first))),
                signature |-> Unwrap(Base64Decode(Unwrap(second)))],
               <<"ArtifactRead", "Parsed">>)

\* verify_license(path) where reading the path gives `file`. The trace lists
\* the stages passed: ArtifactRead (line 243), Parsed (both segments taken and
\* decoded, lines 244-248), Digested (lines 249-251), Verified (lines 252-257).
verify_license(file) ==
    IF ~file.readable THEN Err("io", <<>>)
    ELSE LET parsed == ParseLicense(file.bytes)
         IN IF ~parsed.ok THEN parsed
            ELSE LET digest == Sha256(parsed.v.license_data)
                 IN SignatureCheck(digest, parsed.v.signature,
                                   Append(parsed.trace, "Digested"))

-----------------------------------------------------------------------------
(* Parsing of HOST, PORT and the url *)

Dot == 46

IsDigit(c) == c \in 48..57

RECURSIVE DecimalValue(_)
DecimalValue(s) ==
    IF s = <<>> THEN 0
    ELSE 10 * DecimalValue(SubSeq(s, 1, Len(s) - 1)) + (s[Len(s)] - 48)

\* str::parse for an unsigned integer type with the given maximum.
ParseUnsigned(s, max) ==
    IF s = <<>> \/ \E i \in 1..Len(s) : ~IsDigit(s[i]) THEN None
    ELSE IF DecimalValue(s) > max THEN None
    ELSE Some(DecimalValue(s))

U8Max == 255
U16Max == 65535

\* str::parse::<IpAddr> on dotted-quad text: four decimal octets.
ParseIpAddr(s) ==
    LET parts == SplitOnFrom(s, Dot, 1, <<>>)
    IN IF Len(parts) # 4 THEN None
       ELSE IF \E i \in 1..4 : IsNone(ParseUnsigned(parts[i], U8Max)) THEN None
       ELSE Some([i \in 1..4 |-> Unwrap(ParseUnsigned(parts[i], U8Max))])

ParsePort(s) == ParseUnsigned(s, U16Max)

\* str::parse::<Url>: an absolute url has a scheme, a letter followed by
\* letters, before the first ':'; anything else is a parse error.
IsAlpha(c) == c \in 65..90 \/ c \in 97..122

ParseUrl(s) ==
    LET parts == SplitOnFrom(s, Colon, 1, <<>>)
    IN IF Len(parts) < 2 THEN None
       ELSE IF parts[1] = <<>> \/ \E i \in 1..Len(parts[1]) : ~IsAlpha(parts[1][i])
            THEN None
       ELSE Some([scheme |-> parts[1],
                  path |-> SubSeq(s, Len(parts[1]) + 2, Len(s))])

\* Line 128: "0.0.0.0"
DefaultHostText == <<48, 46, 48, 46, 48, 46, 48>>
\* Line 135
DefaultPort == 8080

ResolveHost_ConfigFirst(host_from_env, host_from_config) ==
    UnwrapOr(OptionOr(host_from_config, host_from_env),
             Unwrap(ParseIpAddr(DefaultHostText)))

\* Lines 126-128
ResolveHost(host_from_env, host_from_config) ==
    UnwrapOr(OptionOr(host_from_env, host_from_config),
             Unwrap(ParseIpAddr(DefaultHostText)))

\* Line 135
ResolvePort(port_from_env, port_from_config) ==
    UnwrapOr(OptionOr(port_from_env, port_from_config), DefaultPort)

-----------------------------------------------------------------------------
(* Directory helpers *)

\* What the platform gives a directory helper: the user directory may be
\* undiscoverable (dirs::*_dir() is None), or create_dir_all may fail.
DirOutcomes == {"ok", "no_dir", "create_failed"}

\* cache_path(), lines 183-193
cache_path(platform) ==
    IF platform = "no_dir" THEN Err("failed to find user cache directory", <<>>)
    ELSE IF platform = "create_failed"
         THEN Err("failed to create tangram cache directory", <<>>)
    ELSE Ok(<<"cache_dir", "tangram">>, <<>>)

\* data_path(), lines 197-207
data_path(platform) ==
    IF platform = "no_dir" THEN Err("failed to find user data directory", <<>>)
    ELSE IF platform = "create_failed"
         THEN Err("failed to create tangram data directory", <<>>)
    ELSE Ok(<<"data_dir", "tangram">>, <<>>)

\* default_database_url(), lines 211-219: every failure is an unwrap, a panic.
\* Ok carries the url, Err the panic.
default_database_url(platform, db_dir_created) ==
    LET dir == data_path(platform)
    IN IF ~dir.ok THEN Err("unwrap on Err: data_path", <<>>)
       ELSE IF ~db_dir_created THEN Err("unwrap on Err: create_dir_all", <<>>)
       ELSE Ok([scheme |-> "sqlite", path |-> dir.v \o <<"db", "tangram.db">>], <<>>)

-----------------------------------------------------------------------------
(* The inputs of a startup attempt *)

\* Text of "127.0.0.1", "localhost", "9000", "70000", "a:b", "ab"
HostTexts == {<<49, 50, 55, 46, 48, 46, 48, 46, 49>>, <<108, 111>>}
PortTexts == {<<57, 48, 48, 48>>, <<55, 48, 48, 48, 48>>}
UrlTexts == {<<97, 58, 98>>, <<97, 98>>}

AuthConfigs == {None, Some([enable |-> FALSE]), Some([enable |-> TRUE])}

DatabaseConfigs ==
    {None,
     Some([max_connections |-> Some(10),
           url |-> [scheme |-> "postgres", path |-> <<"db", "tangram">>]])}

StorageConfigs ==
    {None,
     Some([type |-> "local", path |-> <<"srv", "data">>]),
     Some([type |-> "s3", bucket |-> "models", cache_path |-> None]),
     Some([type |-> "s3", bucket |-> "models", cache_path |-> Some(<<"srv", "cache">>)])}

\* The AppConfig values a well-formed config file deserializes to (lines 8-19).
AppConfigs ==
    [auth : AuthConfigs,
     cookie_domain : {None},
     database : DatabaseConfigs,
     host : {None, Some(<<10, 0, 0, 1>>)},
     license : {None, Some(<<"etc", "license">>)},
     port : {None, Some(3000)},
     smtp : {None},
     storage : StorageConfigs,
     url : {None} \cup {Some(t) : t \in UrlTexts}]

\* args.config and what reading and deserializing it gives (lines 65-70).
ConfigSources ==
    {[kind |-> "absent"], [kind |-> "unreadable"], [kind |-> "malformed"]}
    \cup {[kind |-> "ok", config |-> c] : c \in AppConfigs}

\* Segments of a license artifact: the empty segment, "BA==" (the byte 4, the
\* accepted signature of the empty payload), and "B!" (not base64).
Segments == {<<>>, <<66, 65, 61, 61>>, <<66, 33>>}

RECURSIVE JoinSegments(_)
JoinSegments(segs) ==
    IF Len(segs) = 1 THEN segs[1]
    ELSE segs[1] \o <<Colon>> \o JoinSegments(Tail(segs))

\* Every artifact of 1..MaxSegments segments, and so of 0..MaxSegments-1
\* delimiter bytes.
Artifacts ==
    UNION {{JoinSegments(segs) : segs \in [1..n -> Segments]} : n \in 1..MaxSegments}

LicenseFiles == {FileUnreadable} \cup {FileOk(a) : a \in Artifacts}

-----------------------------------------------------------------------------
(* app(), lines 64-179 *)

\* config.as_ref().and_then(|c| c.field)
ConfigField(cfg, field) == IF IsSome(cfg) THEN Unwrap(cfg)[field] ELSE None

\* Lines 71-80
ResolveAuth(cfg) ==
    LET a == ConfigField(cfg, "auth")
    IN IF IsSome(a) /\ Unwrap(a).enable THEN Some("AuthOptions") ELSE None

\* Line 139, Some(verify_license(..)?): an Err returns from app(), an Ok(b)
\* becomes Some(b).
TryLicense_Swallow(r) ==
    [returns |-> FALSE, err |-> "none", value |-> IF r.ok THEN Some(r.v) ELSE None]

TryLicense(r) ==
    IF r.ok THEN [returns |-> FALSE, err |-> "none", value |-> Some(r.v)]
    ELSE [returns |-> TRUE, err |-> r.v, value |-> None]

Gate_NoLicenseCheck(auth_opt, verified, debug) ==
    IF IsSome(auth_opt) /\ IsSome(verified) /\ Unwrap(verified) = FALSE
    THEN Some("failed to verify license")
    ELSE None

Gate_RuntimeSwitch(auth_opt, verified, debug) ==
    IF IsNone(auth_opt) THEN None
    ELSE IF IsNone(verified)
         THEN IF debug \/ IsNone(host_env) THEN None
              ELSE Some("a license is required to enable authentication")
    ELSE IF Unwrap(verified) = FALSE THEN Some("failed to verify license")
    ELSE None

\* Lines 143-153: None when the gate lets the attempt go on, Some(message) when
\* it returns the error.
Gate(auth_opt, verified, debug) ==
    IF IsNone(auth_opt) THEN None
    ELSE IF IsNone(verified)
         THEN IF debug THEN None
              ELSE Some("a license is required to enable authentication")
    ELSE IF Unwrap(verified) = FALSE THEN Some("failed to verify license")
    ELSE None

Goto(next) ==
    /\ pc' = next
    /\ UNCHANGED <<outcome, error, failed_at>>

\* `?` on an Err returns it from app(); unwrap() on an Err panics.
Fail(kind, message) ==
    /\ pc' = "done"
    /\ outcome' = kind
    /\ error' = message
    /\ failed_at' = pc

Init ==
    /\ debug_assertions \in BOOLEAN
    /\ pc = "load_config"
    /\ outcome = "none"
    /\ error = "none"
    /\ failed_at = "none"
    /\ config = None
    /\ auth = None
    /\ storage = None
    /\ database = None
    /\ host_env = None
    /\ port_env = None
    /\ host = None
    /\ port = None
    /\ license_file = None
    /\ license_verified = None
    /\ verify_trace = <<>>
    /\ verify_calls = 0
    /\ data_path_calls = 0
    /\ cache_path_calls = 0
    /\ url = None
    /\ options = None

\* Lines 65-81
LoadConfig ==
    /\ pc = "load_config"
    /\ \E src \in ConfigSources :
        IF src.kind = "unreadable"
        THEN Fail("err", "io") /\ UNCHANGED <<config, auth>>
        ELSE IF src.kind = "malformed"
        THEN Fail("err", "json") /\ UNCHANGED <<config, auth>>
        ELSE LET cfg == IF src.kind = "ok" THEN Some(src.config) ELSE None
             IN /\ config' = cfg
                /\ auth' = ResolveAuth(cfg)
                /\ Goto("storage")
    /\ UNCHANGED <<debug_assertions, storage, database, host_env, port_env, host,
                   port, license_file, license_verified, verify_trace,
                   verify_calls, data_path_calls, cache_path_calls, url, options>>

\* Lines 82-108
ResolveStorage ==
    /\ pc = "storage"
    /\ LET st == ConfigField(config, "storage")
       IN IF IsSome(st) /\ Unwrap(st).type = "local"
          THEN /\ storage' = Some([type |-> "local", path |-> Unwrap(st).path])
               /\ Goto("database")
               /\ UNCHANGED <<data_path_calls, cache_path_calls>>
          ELSE IF IsSome(st) /\ IsSome(Unwrap(st).cache_path)
          THEN /\ storage' = Some([type |-> "s3", bucket |-> Unwrap(st).bucket,
                                   cache_path |-> Unwrap(Unwrap(st).cache_path)])
               /\ Goto("database")
               /\ UNCHANGED <<data_path_calls, cache_path_calls>>
          ELSE IF IsSome(st)
          THEN \E platform \in DirOutcomes :
                 LET dir == cache_path(platform)
                 IN /\ cache_path_calls' = cache_path_calls + 1
                    /\ UNCHANGED data_path_calls
                    /\ IF dir.ok
                       THEN /\ storage' = Some([type |-> "s3",
                                                bucket |-> Unwrap(st).bucket,
                                                cache_path |-> dir.v])
                            /\ Goto("database")
                       ELSE /\ Fail("panic", dir.v)
                            /\ UNCHANGED storage
          ELSE \E platform \in DirOutcomes :
                 LET dir == data_path(platform)
                 IN /\ data_path_calls' = data_path_calls + 1
                    /\ UNCHANGED cache_path_calls
                    /\ IF dir.ok
                       THEN /\ storage' = Some([type |-> "local",
                                                path |-> Append(dir.v, "data")])
                            /\ Goto("database")
                       ELSE /\ Fail("err", dir.v)
                            /\ UNCHANGED storage
    /\ UNCHANGED <<debug_assertions, config, auth, database, host_env, port_env,
                   host, port, license_file, license_verified, verify_trace,
                   verify_calls, url, options>>

\* Lines 109-119
ResolveDatabase ==
    /\ pc = "database"
    /\ LET db == ConfigField(config, "database")
       IN IF IsSome(db)
          THEN /\ database' = Some([max_connections |-> Unwrap(db).max_connections,
                                    url |-> Unwrap(db).url])
               /\ Goto("host")
               /\ UNCHANGED data_path_calls
          ELSE \E platform \in DirOutcomes, db_dir_created \in BOOLEAN :
                 LET u == default_database_url(platform, db_dir_created)
                 IN /\ data_path_calls' = data_path_calls + 1
                    /\ IF u.ok
                       THEN /\ database' = Some([max_connections |-> None,
                                                 url |-> u.v])
                            /\ Goto("host")
                       ELSE /\ Fail("panic", u.v)
                            /\ UNCHANGED database
    /\ UNCHANGED <<debug_assertions, config, auth, storage, host_env, port_env,
                   host, port, license_file, license_verified, verify_trace,
                   verify_calls, cache_path_calls, url, options>>

\* Lines 120-128
ResolveHostStep ==
    /\ pc = "host"
    /\ \E env \in {None} \cup {Some(t) : t \in HostTexts} :
        /\ host_env' = env
        /\ IF IsSome(env) /\ IsNone(ParseIpAddr(Unwrap(env)))
           THEN /\ Fail("err", "addr parse")
                /\ UNCHANGED host
           ELSE LET host_from_env ==
                        IF IsSome(env) THEN ParseIpAddr(Unwrap(env)) ELSE None
                    host_from_config == ConfigField(config, "host")
                IN /\ host' = Some(ResolveHost(host_from_env, host_from_config))
                   /\ Goto("port")
    /\ UNCHANGED <<debug_assertions, config, auth, storage, database, port_env,
                   port, license_file, license_verified, verify_trace,
                   verify_calls, data_path_calls, cache_path_calls, url, options>>

\* Lines 129-135
ResolvePortStep ==
    /\ pc = "port"
    /\ \E env \in {None} \cup {Some(t) : t \in PortTexts} :
        /\ port_env' = env
        /\ IF IsSome(env) /\ IsNone(ParsePort(Unwrap(env)))
           THEN /\ Fail("err", "int parse")
                /\ UNCHANGED port
           ELSE LET port_from_env ==
                        IF IsSome(env) THEN ParsePort(Unwrap(env)) ELSE None
                    port_from_config == ConfigField(config, "port")
                IN /\ port' = Some(ResolvePort(port_from_env, port_from_config))
                   /\ Goto("license")
    /\ UNCHANGED <<debug_assertions, config, auth, storage, database, host_env,
                   host, license_file, license_verified, verify_trace,
                   verify_calls, data_path_calls, cache_path_calls, url, options>>

\* Lines 136-142
VerifyLicenseStep ==
    /\ pc = "license"
    /\ IF IsSome(ConfigField(config, "license"))
       THEN \E file \in LicenseFiles :
              LET r == verify_license(file)
                  t == TryLicense(r)
              IN /\ license_file' = Some(file)
                 /\ verify_calls' = verify_calls + 1
                 /\ verify_trace' = r.trace
                 /\ IF t.returns
                    THEN /\ Fail("err", t.err)
                         /\ UNCHANGED license_verified
                    ELSE /\ license_verified' = t.value
                         /\ Goto("gate")
       ELSE /\ license_verified' = None
            /\ Goto("gate")
            /\ UNCHANGED <<license_file, verify_calls, verify_trace>>
    /\ UNCHANGED <<debug_assertions, config, auth, storage, database, host_env,
                   port_env, host, port, data_path_calls, cache_path_calls, url,
                   options>>

\* Lines 143-153
GateStep ==
    /\ pc = "gate"
    /\ LET g == Gate(auth, license_verified, debug_assertions)
       IN IF IsSome(g) THEN Fail("err", Unwrap(g)) ELSE Goto("options")
    /\ UNCHANGED <<debug_assertions, config, auth, storage, database, host_env,
                   port_env, host, port, license_file, license_verified,
                   verify_trace, verify_calls, data_path_calls, cache_path_calls,
                   url, options>>

\* Lines 154-178: smtp, url, the Options value, and tangram_app::run(options).
RunStep ==
    /\ pc = "options"
    /\ LET u == ConfigField(config, "url")
       IN IF IsSome(u) /\ IsNone(ParseUrl(Unwrap(u)))
          THEN /\ Fail("err", "url parse")
               /\ UNCHANGED <<url, options>>
          ELSE /\ url' = IF IsSome(u) THEN ParseUrl(Unwrap(u)) ELSE None
               /\ options' = Some([auth |-> auth,
                                   cookie_domain |-> ConfigField(config, "cookie_domain"),
                                   database |-> Unwrap(database),
                                   host |-> Unwrap(host),
                                   port |-> Unwrap(port),
                                   smtp |-> ConfigField(config, "smtp"),
                                   storage |-> Unwrap(storage),
                                   url |-> url'])
               /\ pc' = "done"
               /\ outcome' = "run"
               /\ UNCHANGED <<error, failed_at>>
    /\ UNCHANGED <<debug_assertions, config, auth, storage, database, host_env,
                   port_env, host, port, license_file, license_verified,
                   verify_trace, verify_calls, data_path_calls, cache_path_calls>>

Next ==
    \/ LoadConfig
    \/ ResolveStorage
    \/ ResolveDatabase
    \/ ResolveHostStep
    \/ ResolvePortStep
    \/ VerifyLicenseStep
    \/ GateStep
    \/ RunStep

Spec == Init /\ [][Next]_vars

-----------------------------------------------------------------------------
(* Vocabulary of the properties *)

Done == pc = "done"
Ran == outcome = "run"
Failed == outcome \in {"err", "panic"}

\* auth.enable = true in the config file
AuthRequested ==
    /\ IsSome(config)
    /\ IsSome(Unwrap(config).auth)
    /\ Unwrap(Unwrap(config).auth).enable

LicenseConfigured == IsSome(config) /\ IsSome(Unwrap(config).license)

\* The attempt got as far as the license step (line 137).
ReachedLicenseStep ==
    \/ pc \in {"gate", "options"}
    \/ Ran
    \/ failed_at \in {"license", "gate", "options"}

Stages == <<"ArtifactRead", "Parsed", "Digested", "Verified">>

ReturnedVerified ==
    /\ verify_calls = 1
    /\ verify_trace = Stages
    /\ license_verified = Some(TRUE)

\* verify_license was invoked and did not return Verified.
VerificationRejected == verify_calls >= 1 /\ verify_trace # Stages

DelimiterCount(bytes) == Cardinality({i \in 1..Len(bytes) : bytes[i] = Colon})

\* host and port of the config file, None without a config file
FileHost == IF IsSome(config) THEN Unwrap(config).host ELSE None
FilePort == IF IsSome(config) THEN Unwrap(config).port ELSE None

Text127 == <<49, 50, 55, 46, 48, 46, 48, 46, 49>>
Text9000 == <<57, 48, 48, 48>>

-----------------------------------------------------------------------------
(* C1: whenever the options handed to tangram_app::run carry the auth        *)
(* capability, verify_license returned Verified in this attempt, or the      *)
(* build is a debug build and no license path is configured.                 *)
C1_AuthOnlyIfVerified ==
    (Ran /\ IsSome(Unwrap(options).auth)) =>
        \/ ReturnedVerified
        \/ debug_assertions /\ ~LicenseConfigured

C1_Witness ==
    /\ Ran
    /\ IsSome(Unwrap(options).auth)
    /\ ReturnedVerified
    /\ ~debug_assertions

(* C2: when auth is requested and the configured license is rejected by     *)
(* verify_license, the attempt has ended in an error at the license step and *)
(* tangram_app::run was not invoked (no options were handed over).           *)
C2_RejectedLicenseIsFatal ==
    (AuthRequested /\ LicenseConfigured /\ VerificationRejected) =>
        /\ Done
        /\ outcome = "err"
        /\ failed_at = "license"
        /\ options = None

C2_Witness ==
    /\ AuthRequested
    /\ VerificationRejected
    /\ Unwrap(license_file).readable
    /\ error = "rsa verification"
    /\ debug_assertions

(* C3: in a production build, auth requested with no license path never     *)
(* reaches tangram_app::run and fails at the gate with the license-required  *)
(* error if it gets there; whether the case passes the gate is decided by    *)
(* the build mode alone, for every config, HOST and PORT.                    *)
C3_NoLicenseGateByBuildMode ==
    (AuthRequested /\ ~LicenseConfigured) =>
        /\ ~debug_assertions => (~Ran /\ pc # "options" /\ (Done => Failed))
        /\ failed_at = "gate" =>
              /\ ~debug_assertions
              /\ outcome = "err"
              /\ error = "a license is required to enable authentication"
        /\ (pc = "options" \/ Ran \/ failed_at = "options") => debug_assertions

C3_Witness ==
    /\ AuthRequested
    /\ ~LicenseConfigured
    /\ ~debug_assertions
    /\ failed_at = "gate"
    /\ error = "a license is required to enable authentication"

(* C4: when auth is not requested the license outcome is irrelevant: the    *)
(* license step never ends the attempt, and the options carry no auth.      *)
C4_LicenseIrrelevantWithoutAuth ==
    (IsSome(config) /\ ~AuthRequested) =>
        /\ failed_at # "license"
        /\ Ran => IsNone(Unwrap(options).auth)

(* C5: an artifact with no ':' or with two or more ':' is never Verified.   *)
C5_DelimiterCountRejected ==
    (IsSome(license_file) /\ Unwrap(license_file).readable
        /\ DelimiterCount(Unwrap(license_file).bytes) # 1) =>
        /\ license_verified # Some(TRUE)
        /\ verify_trace # Stages
        /\ Failed

(* C6: the resolved host is HOST from the environment, else the config      *)
(* file's host, else 0.0.0.0; the resolved port is PORT, else the config     *)
(* file's port, else 8080; each field depends on its own sources only.       *)
C6_HostPortPrecedence ==
    /\ IsSome(host) =>
          Unwrap(host) =
              IF host_env = Some(Text127) THEN <<127, 0, 0, 1>>
              ELSE IF IsSome(FileHost) THEN Unwrap(FileHost)
              ELSE <<0, 0, 0, 0>>
    /\ IsSome(port) =>
          Unwrap(port) =
              IF port_env = Some(Text9000) THEN 9000
              ELSE IF IsSome(FilePort) THEN Unwrap(FilePort)
              ELSE 8080
    /\ Ran => /\ Unwrap(options).host = Unwrap(host)
              /\ Unwrap(options).port = Unwrap(port)

C6_Witness ==
    /\ Ran
    /\ host_env = Some(Text127)
    /\ FileHost = Some(<<10, 0, 0, 1>>)
    /\ Unwrap(options).host = <<127, 0, 0, 1>>
    /\ port_env = None
    /\ FilePort = None
    /\ Unwrap(options).port = 8080

(* C7: data_path() and cache_path() are each invoked at most once in an     *)
(* attempt.                                                                  *)
C7_DirHelpersAtMostOnce ==
    /\ data_path_calls <= 1
    /\ cache_path_calls <= 1

(* C8: a failure of a default directory (storage or database step) ends the *)
(* attempt with an error value returned by app(), never with a panic.        *)
C8_DirFailureIsErr ==
    failed_at \in {"storage", "database"} => outcome = "err"

\* The stages passed are a prefix of the chain, in order, none twice.
TraceIsPrefixOfStages == \E k \in 0..Len(Stages) : verify_trace = SubSeq(Stages, 1, k)

\* The file read, its first two segments decoded, and the decoded second
\* segment is the accepted signature of the digest of the decoded first one.
ReadDecodedAndSigned ==
    /\ IsSome(license_file)
    /\ Unwrap(license_file).readable
    /\ LET segs == Split(Unwrap(license_file).bytes)
       IN /\ Len(segs) >= 2
          /\ IsSome(Base64Decode(segs[1]))
          /\ IsSome(Base64Decode(segs[2]))
          /\ Unwrap(Base64Decode(segs[2])) =
                SignatureOf(Sha256(Unwrap(Base64Decode(segs[1]))))

\* The three-valued outcome NotAttempted: the license step passed without a
\* verification.
NotAttempted == ReachedLicenseStep /\ verify_calls = 0 /\ license_verified = None

C9_VerifierCommon ==
    /\ verify_calls <= 1
    /\ TraceIsPrefixOfStages
    /\ verify_calls = 0 => verify_trace = <<>>
    /\ ReachedLicenseStep => (NotAttempted <=> ~LicenseConfigured)
    /\ (IsSome(license_file) /\ ~Unwrap(license_file).readable) =>
          (~NotAttempted /\ outcome = "err" /\ failed_at = "license")
    /\ license_verified = Some(TRUE) => (verify_trace = Stages /\ ReadDecodedAndSigned)
    /\ VerificationRejected => (Done /\ ~ENABLED Next)

(* C9 as stated: per attempt, verify_license is invoked at most once and is *)
(* invoked if and only if a license path is configured; NotAttempted arises  *)
(* exactly when no path is configured; Verified only after read, decodes and *)
(* signature check; a failed attempt is never retried.                       *)
C9_Original ==
    /\ C9_VerifierCommon
    /\ Done => (verify_calls = 1 <=> LicenseConfigured)

(* C9 as amended: verify_license is invoked at most once, only if a license *)
(* path is configured, and in every attempt that reaches the license step it *)
(* is invoked if and only if a license path is configured; an attempt that   *)
(* fails before that step never invokes it. The rest as stated.              *)
C9_VerifierStateMachine ==
    /\ C9_VerifierCommon
    /\ verify_calls = 1 => (LicenseConfigured /\ ReachedLicenseStep)
    /\ ReachedLicenseStep => (verify_calls = 1 <=> LicenseConfigured)

C9_Witness ==
    /\ pc = "gate"
    /\ license_verified = Some(TRUE)
    /\ verify_trace = Stages
    /\ DelimiterCount(Unwrap(license_file).bytes) = 1

(* C10: verify_license never gives Ok(false): license_verified is None or   *)
(* Some(true), the gate's "failed to verify license" exit is never taken,    *)
(* and every rejection leaves app() as an error at the verify_license call.  *)
C10_NeverOkFalse ==
    /\ license_verified \in {None, Some(TRUE)}
    /\ error # "failed to verify license"
    /\ pc = "load_config" =>
          \A f \in LicenseFiles : verify_license(f).ok => verify_license(f).v = TRUE
    /\ VerificationRejected =>
          /\ Done
          /\ outcome = "err"
          /\ failed_at = "license"
          /\ error \in {"io", "invalid license", "base64", "rsa verification"}

C10_Witness ==
    /\ VerificationRejected
    /\ failed_at = "license"
    /\ error = "invalid license"
    /\ ~AuthRequested

====
